---- MODULE Spec2Model ----
(***************************************************************************)
(* Dr.SEM: the conversation orchestrator of App.tsx (handleSendMessage,    *)
(* checkApiKey, handleSelectKey), the ChatPanel controls that start a      *)
(* turn, and the interaction state machine of the diagram editor           *)
(* (ModelPreview).                                                         *)
(*                                                                         *)
(* Texts are sequences of one-character strings, so that trim(),           *)
(* toLowerCase() and includes() are computed, not assumed.                 *)
(***************************************************************************)
EXTENDS Integers, Sequences, FiniteSets, TLC

\* ------------------------------------------------------------------ bounds
\* Number of invocations of handleSendMessage a behaviour may hold.
MaxTurns == 2
\* Number of openSelectKey() dialogs that may be open at once.
MaxSelect == 1
\* Number of edits that grow or move the graph (links created, nodes added,
\* nodes dragged) a behaviour may hold; undo and clear are not counted.
MaxEdits == 2
\* The most column names hidden in the table at once.
MaxHidden == 2

\* ------------------------------------------------------------------- texts
Upper == <<"A","B","C","D","E","F","G","H","I","J","K","L","M",
           "N","O","P","Q","R","S","T","U","V","W","X","Y","Z">>
Lower == <<"a","b","c","d","e","f","g","h","i","j","k","l","m",
           "n","o","p","q","r","s","t","u","v","w","x","y","z">>

\* String.prototype.toLowerCase, character by character.
LowerChar(c) ==
  IF \E i \in 1..Len(Upper) : Upper[i] = c
  THEN Lower[CHOOSE i \in 1..Len(Upper) : Upper[i] = c]
  ELSE c

ToLowerCase(s) == [i \in 1..Len(s) |-> LowerChar(s[i])]

\* String.prototype.includes: sub occurs in s as a contiguous run.
Includes(s, sub) ==
  \E k \in 0..(Len(s) - Len(sub)) :
    \A i \in 1..Len(sub) : s[k + i] = sub[i]

\* The characters /\s/ and trim() treat as white space.
IsSpace(c) == c \in {" ", "\t", "\n"}

\* String.prototype.trim().
Trim(s) ==
  IF \A i \in 1..Len(s) : IsSpace(s[i]) THEN <<>>
  ELSE LET a == CHOOSE i \in 1..Len(s) :
                  ~IsSpace(s[i]) /\ \A j \in 1..(i - 1) : IsSpace(s[j])
           b == CHOOSE i \in 1..Len(s) :
                  ~IsSpace(s[i]) /\ \A j \in (i + 1)..Len(s) : IsSpace(s[j])
       IN  SubSeq(s, a, b)

\* ------------------------------------------------------------ enumerations
SenderUSER == "user"
SenderAI == "ai"

ToolCONCEPTUAL == "conceptual"
ToolFIT_CHECKER == "fit_checker"
ToolAPA_TABLE == "apa_table"
ToolJAMOVI == "jamovi"
ToolModes == {ToolCONCEPTUAL, ToolFIT_CHECKER, ToolAPA_TABLE, ToolJAMOVI}

\* null / undefined.
Null == "null"

\* ------------------------------------------------------ texts of the model
\* TRANSLATIONS[lang].greeting, abridged to its first word and transliterated.
TranslationsGreeting(lang) ==
  CASE lang = "TH" -> <<"S","a","w","a","t","d","e","e">>
    [] lang = "EN" -> <<"H","e","l","l","o">>
    [] lang = "CN" -> <<"N","i","h","a","o">>

\* TRANSLATIONS[Language.TH].greeting
Greeting == TranslationsGreeting("TH")

\* The fixed text of the catch branch.
ErrorText ==
  <<"E","r","r","o","r"," ","c","o","n","n","e","c","t","i","n","g"," ","t","o",
    " ","D","r",".","S","E","M","."," ","P","l","e","a","s","e"," ","c","h","e",
    "c","k"," ","y","o","u","r"," ","A","P","I"," ","K","e","y",".">>

SystemError == <<"S","y","s","t","e","m"," ","E","r","r","o","r">>

\* What the operator may have typed in the chat input.
Inputs == { <<>>, <<" ">>, <<"h","i">> }

Question1 == <<"w","h","y","?">>
Question2 == <<"h","o","w","?">>

\* Replies of the hosted model: answer, suggestedQuestions, relatedQuestions.
Responses ==
  { [answer |-> <<"C","F","I"," ","o","k">>, sq |-> <<Question1>>, rq |-> <<>>],
    [answer |-> <<"s","e","e"," ","A","P","A"," ","t","a","b","l","e">>,
       sq |-> <<>>, rq |-> <<Question2>>],
    [answer |-> <<>>, sq |-> <<>>, rq |-> <<>>] }

\* String(error) of the values the outbound call may reject with.
ErrApiKey == <<"E","r","r","o","r",":"," ","A","P","I","_","K","E","Y"," ",
               "u","n","s","e","t">>
ErrApiKeyProse == <<"E","r","r","o","r",":"," ","b","a","d"," ","A","P","I"," ",
                    "k","e","y">>
ErrNetwork == <<"T","y","p","e","E","r","r","o","r",":"," ","f","e","t","c","h">>
Errors == {ErrApiKey, ErrApiKeyProse, ErrNetwork}

\* --------------------------------------------------------------- variables
VARIABLES
  \* App
  mounted,          \* the mount effect has run
  messages,         \* useState<Message[]>
  isLoading,
  apiKeyMissing,
  suggestedTool,
  activeTool,
  nodes,
  links,
  isDarkMode,
  \* environment of App
  envApiKey,        \* process.env.API_KEY is set
  aistudio,         \* window.aistudio offers hasSelectedApiKey / openSelectKey
  \* localStorage
  savedMessages,    \* drsem_messages (<<>> when absent)
  savedNodes,       \* drsem_nodes (<<>> absent, <<ns>> stored)
  savedLinks,       \* drsem_links (<<>> absent, <<ls>> stored)
  savedTheme,       \* drsem_theme (Null when absent)
  \* asynchronous invocations
  turns,            \* handleSendMessage invocations, by number
  nTurns,
  checkPc,          \* checkApiKey: "none", "pending", "done"
  selectPending,    \* openSelectKey() promises not yet settled
  \* ModelPreview
  interactionMode,
  linkType,
  linkingSourceId,
  tempLineEnd,      \* <<>> for null, <<p>> for the point p
  mermaidSyntax,    \* the diagram text, a sequence of text pieces
  nEdits,           \* links created, nodes added and nodes dragged so far
  \* ApaTableGenerator
  dataText,
  hiddenColumns,
  copied,
  \* a second instance of the app on the same storage
  otherTab,
  \* history: the last handler that ran, for stating the claims
  lastOp

appVars == <<mounted, messages, isLoading, apiKeyMissing, suggestedTool>>
envVars == <<envApiKey, aistudio, otherTab>>
storeVars == <<savedMessages, savedNodes, savedLinks, savedTheme>>
asyncVars == <<turns, nTurns, checkPc, selectPending>>
graphVars == <<nodes, links>>
previewVars == <<interactionMode, linkType, linkingSourceId, tempLineEnd>>
editorVars == <<graphVars, previewVars, nEdits, activeTool>>
chatVars == <<appVars, asyncVars>>
viewVars == <<isDarkMode, mermaidSyntax>>
tableVars == <<dataText, hiddenColumns, copied>>
vars == <<chatVars, envVars, storeVars, editorVars, viewVars, tableVars, lastOp>>

\* ------------------------------------------------------------------ App.tsx
DefaultNodes ==
  << [id |-> "1", label |-> <<"L","e","a","d","e","r","s","h","i","p">>,
      type |-> "latent", x |-> 50, y |-> 50],
     [id |-> "2", label |-> <<"Q","u","a","l","i","t","y">>,
      type |-> "latent", x |-> 250, y |-> 50],
     [id |-> "3", label |-> <<"S","u","c","c","e","s","s">>,
      type |-> "latent", x |-> 150, y |-> 200] >>

DefaultLinks ==
  << [source |-> "1", target |-> "3", type |-> "directed"],
     [source |-> "2", target |-> "3", type |-> "directed"] >>

\* A Message; timestamp is the kind of value the field holds, turn is the
\* invocation of this page that appended it (0: not a turn's).
Msg(sender, text, att, sq, rq, turn) ==
  [sender |-> sender, text |-> text, att |-> att, sq |-> sq, rq |-> rq,
   timestamp |-> "Date", turn |-> turn]

\* Mutant: the greeting of the English table.
GreetingMsg_InEnglish ==
  Msg(SenderAI, TranslationsGreeting("EN"), FALSE, <<>>, <<>>, 0)

GreetingMsg == Msg(SenderAI, Greeting, FALSE, <<>>, <<>>, 0)

\* JSON.stringify(messages): a Date is written as its ISO string; the
\* invocations of the page are not part of the value.
StringifyMessages(ms) ==
  [i \in 1..Len(ms) |-> [ms[i] EXCEPT !.timestamp = "string", !.turn = 0]]

\* JSON.parse(savedMessages, reviver): the reviver turns every timestamp
\* into a Date again.
ParseMessages(stored) ==
  [i \in 1..Len(stored) |-> [stored[i] EXCEPT !.timestamp = "Date"]]

\* JSON.stringify of the node list or the link list: strings and finite
\* numbers, written and read back as they are; <<>> is the absent key.
StringifyGraph(list) == <<list>>
ParseGraph(stored) == stored[1]

\* isDarkMode ? 'dark' : 'light'
ThemeName(dark) == IF dark THEN "dark" ELSE "light"

\* Mutant: the write does not reach the storage.
SetItem_Dropped(stored, value) == stored

\* localStorage.setItem(key, value): the value replaces what was stored.
SetItem(stored, value) == value

\* The second instance before it is opened.
ClosedTab == [mounted |-> FALSE, nodes |-> DefaultNodes, links |-> DefaultLinks]

\* A transcript an earlier session may have saved.
SavedTranscript ==
  << GreetingMsg,
     Msg(SenderUSER, <<"h","i">>, FALSE, <<>>, <<>>, 0),
     Msg(SenderAI, <<"f","i","n","e">>, FALSE, <<Question1>>, <<>>, 0) >>

IdleTurn ==
  [pc |-> "idle", text |-> <<>>, att |-> FALSE, snap |-> <<>>, hist |-> <<>>,
   calls |-> 0]

Op(name, turn, arg) == [op |-> name, turn |-> turn, arg |-> arg]

\* Graphs an earlier session, or an edit of the storage, may have left under
\* drsem_nodes and drsem_links: the links may name nodes that are not stored.
StoredNodes ==
  { <<>>,
    << [id |-> "1", label |-> <<"A"," ","B">>, type |-> "observed",
        x |-> 10, y |-> 20] >>,
    << [id |-> "1", label |-> <<"A"," ","B">>, type |-> "observed",
        x |-> 10, y |-> 20],
       [id |-> "2", label |-> <<"C","\t","D">>, type |-> "latent",
        x |-> 200, y |-> 20] >> }

StoredLinks ==
  { <<>>,
    << [source |-> "1", target |-> "2", type |-> "covariance"],
       [source |-> "9", target |-> "1", type |-> "directed"] >> }

\* The table text ApaTableGenerator starts with, abridged to two columns
\* and one body row.
DefaultDataText == <<"L","V",","," ","A","V","E","\n","Q",","," ","0",".","7">>

Init ==
  /\ mounted = FALSE
  /\ messages = <<>>
  /\ isLoading = FALSE
  /\ apiKeyMissing = FALSE
  /\ suggestedTool = Null
  /\ activeTool = ToolCONCEPTUAL
  /\ nodes = DefaultNodes
  /\ links = DefaultLinks
  /\ isDarkMode = FALSE
  /\ mermaidSyntax = <<>>
  /\ dataText = DefaultDataText
  /\ hiddenColumns = <<>>
  /\ copied = FALSE
  /\ envApiKey \in BOOLEAN
  /\ aistudio \in BOOLEAN
  /\ savedMessages \in {<<>>, StringifyMessages(SavedTranscript)}
  /\ savedNodes \in {<<>>} \cup {<<ns>> : ns \in StoredNodes}
  /\ savedLinks \in {<<>>} \cup {<<ls>> : ls \in StoredLinks}
  /\ savedTheme \in {Null, "dark", "light"}
  /\ turns = [t \in 1..MaxTurns |-> IdleTurn]
  /\ nTurns = 0
  /\ checkPc = "none"
  /\ selectPending = 0
  /\ interactionMode = "move"
  /\ linkType = "directed"
  /\ linkingSourceId = Null
  /\ tempLineEnd = <<>>
  /\ nEdits = 0
  /\ otherTab = ClosedTab
  /\ lastOp = Op("init", 0, <<>>)

\* The keyword sets of the tool suggestion.
KwCfi == <<"c","f","i">>
KwRmsea == <<"r","m","s","e","a">>
KwFitIndex == <<"f","i","t"," ","i","n","d","e","x">>
KwApaTable == <<"a","p","a"," ","t","a","b","l","e">>
\* The Thai word for table, by code point.
KwTarang == <<"U+0E15","U+0E32","U+0E23","U+0E32","U+0E07">>
KwJamovi == <<"j","a","m","o","v","i">>
KwSyntax == <<"s","y","n","t","a","x">>
KwCode == <<"c","o","d","e">>
KwApiKey == <<"A","P","I","_","K","E","Y">>

\* The tool the reply's keywords select, Null when none matches.
SuggestionFor(answer) ==
  LET lowerText == ToLowerCase(answer)
  IN  IF \/ Includes(lowerText, KwCfi)
         \/ Includes(lowerText, KwRmsea)
         \/ Includes(lowerText, KwFitIndex)
      THEN ToolFIT_CHECKER
      ELSE IF Includes(lowerText, KwApaTable) \/ Includes(lowerText, KwTarang)
      THEN ToolAPA_TABLE
      ELSE IF \/ Includes(lowerText, KwJamovi)
              \/ Includes(lowerText, KwSyntax)
              \/ Includes(lowerText, KwCode)
      THEN ToolJAMOVI
      ELSE Null

\* Mutant: any text naming the API raises the flag.
MentionsApiKey_AnyApi(errorString) == Includes(errorString, <<"A","P","I">>)

\* String(error).includes('API_KEY')
MentionsApiKey(errorString) == Includes(errorString, KwApiKey)

\* messages.map(m => ({role, parts: [{text}]}))
History(ms) ==
  [i \in 1..Len(ms) |->
     [role |-> IF ms[i].sender = SenderUSER THEN "user" ELSE "model",
      text |-> ms[i].text]]

\* ---------------------------------------- the diagram text (lines 30-56)
\* Texts are sequences of pieces: one character each, or an interpolated id
\* or type.
SyntaxHeader ==
  <<"g","r","a","p","h"," ","L","R","\n">>

ClassDefLatentDark ==
  <<"c","l","a","s","s","D","e","f"," ","l","a","t","e","n","t"," ","f","i",
    "l","l",":","#","1","e","2","9","3","b",",","s","t","r","o","k","e",":",
    "#","e","2","e","8","f","0",",","s","t","r","o","k","e","-","w","i","d",
    "t","h",":","2","p","x",",","r","x",":","5","0",",","r","y",":","5","0",
    ",","c","o","l","o","r",":","#","f","f","f",";","\n">>

ClassDefObservedDark ==
  <<"c","l","a","s","s","D","e","f"," ","o","b","s","e","r","v","e","d"," ",
    "f","i","l","l",":","#","0","f","1","7","2","a",",","s","t","r","o","k",
    "e",":","#","0","6","b","6","d","4",",","s","t","r","o","k","e","-","w",
    "i","d","t","h",":","1","p","x",",","r","x",":","0",",","r","y",":","0",
    ",","c","o","l","o","r",":","#","f","f","f",";","\n">>

ClassDefLatentLight ==
  <<"c","l","a","s","s","D","e","f"," ","l","a","t","e","n","t"," ","f","i",
    "l","l",":","#","f","f","f",",","s","t","r","o","k","e",":","#","3","3",
    "3",",","s","t","r","o","k","e","-","w","i","d","t","h",":","2","p","x",
    ",","r","x",":","5","0",",","r","y",":","5","0",";","\n">>

ClassDefObservedLight ==
  <<"c","l","a","s","s","D","e","f"," ","o","b","s","e","r","v","e","d"," ",
    "f","i","l","l",":","#","f","0","f","9","f","f",",","s","t","r","o","k",
    "e",":","#","0","8","9","1","b","2",",","s","t","r","o","k","e","-","w",
    "i","d","t","h",":","1","p","x",",","r","x",":","0",",","r","y",":","0",
    ";","\n">>

\* Mutant: the label is written as typed.
SafeLabel_AsTyped(label) == label

\* node.label.replace(/\s/g, '_')
SafeLabel(label) ==
  [i \in 1..Len(label) |-> IF IsSpace(label[i]) THEN "_" ELSE label[i]]

\* The shape marker around the label.
Shape(node) ==
  IF node.type = "latent"
  THEN <<"(","(">> \o SafeLabel(node.label) \o <<")",")">>
  ELSE <<"[">> \o SafeLabel(node.label) \o <<"]">>

\* `${node.id}${shape}:::${node.type}\n`
NodeDecl(node) ==
  <<node.id>> \o Shape(node) \o <<":",":",":">> \o <<node.type, "\n">>

\* The arrow of a link.
Arrow(link) ==
  IF link.type = "covariance" THEN <<"<","-","-",">">> ELSE <<"-","-",">">>

\* `${link.source} ${arrow} ${link.target}\n`
LinkDecl(link) ==
  <<link.source, " ">> \o Arrow(link) \o <<" ", link.target, "\n">>

RECURSIVE NodeDecls(_)
\* nodes.forEach(node => syntax += ...)
NodeDecls(ns) ==
  IF ns = <<>> THEN <<>> ELSE NodeDecl(Head(ns)) \o NodeDecls(Tail(ns))

RECURSIVE LinkDecls(_)
\* links.forEach(link => syntax += ...)
LinkDecls(ls) ==
  IF ls = <<>> THEN <<>> ELSE LinkDecl(Head(ls)) \o LinkDecls(Tail(ls))

\* The text the effect hands to setMermaidSyntax.
Syntax(ns, ls, dark) ==
  SyntaxHeader
    \o (IF dark THEN ClassDefLatentDark \o ClassDefObservedDark
               ELSE ClassDefLatentLight \o ClassDefObservedLight)
    \o NodeDecls(ns) \o LinkDecls(ls)

\* The effect runs after every render of ModelPreview in which nodes, links
\* or isDarkMode changed; a ModelPreview that is not rendered holds no text.
MermaidEffect ==
  mermaidSyntax' =
    IF mounted' /\ ~apiKeyMissing' /\ activeTool' = ToolCONCEPTUAL
    THEN Syntax(nodes', links', isDarkMode')
    ELSE <<>>

\* Local state of ModelPreview as useState creates it.
PreviewDefaults ==
  /\ interactionMode' = "move"
  /\ linkType' = "directed"
  /\ linkingSourceId' = Null
  /\ tempLineEnd' = <<>>

\* Local state of ApaTableGenerator as useState creates it.
TableDefaults ==
  /\ dataText' = DefaultDataText
  /\ hiddenColumns' = <<>>
  /\ copied' = FALSE

\* App renders the blocking screen instead of its panels while apiKeyMissing,
\* and ToolsPanel renders ModelPreview only under the conceptual tab: a
\* component that leaves the tree loses its local state.
Render ==
  /\ IF apiKeyMissing' \/ activeTool' # ToolCONCEPTUAL
     THEN PreviewDefaults ELSE UNCHANGED previewVars
  /\ IF apiKeyMissing' \/ activeTool' # ToolAPA_TABLE
     THEN TableDefaults ELSE UNCHANGED tableVars

ChatShown == mounted /\ ~apiKeyMissing

\* Mutant: the load effect reads after the write effects of the first render.
ReadAtMount_AfterWrites(stored, firstWrite) == firstWrite

\* The value the load effect reads for a key: the effects run in the order
\* of their declaration, the load effect first, so it reads what was stored
\* before the write effects of the first render store firstWrite.
ReadAtMount(stored, firstWrite) == stored

\* if (savedMessages) setMessages(JSON.parse(...)) else setMessages([greeting])
LoadMessages(stored) ==
  IF stored # <<>> THEN ParseMessages(stored) ELSE <<GreetingMsg>>

\* if (savedNodes) setNodes(JSON.parse(savedNodes)), likewise the links.
LoadGraph(stored, current) ==
  IF stored # <<>> THEN ParseGraph(stored) ELSE current

\* if (savedTheme === 'dark') setIsDarkMode(true)
LoadTheme(stored, current) == IF stored = "dark" THEN TRUE ELSE current

\* The persisted keys the storage holds.
StoredKeys ==
  SelectSeq(<<"drsem_messages", "drsem_nodes", "drsem_links", "drsem_theme">>,
            LAMBDA k :
              \/ k = "drsem_messages" /\ savedMessages # <<>>
              \/ k = "drsem_nodes" /\ savedNodes # <<>>
              \/ k = "drsem_links" /\ savedLinks # <<>>
              \/ k = "drsem_theme" /\ savedTheme # Null)

\* The four write effects after a handler: an effect runs when its value
\* has changed (a handler's no-op update is taken as no change), and the
\* transcript is written only when it is not empty.
Persist ==
  /\ savedMessages' =
       IF messages' # messages /\ Len(messages') > 0
       THEN SetItem(savedMessages, StringifyMessages(messages'))
       ELSE savedMessages
  /\ savedNodes' =
       IF nodes' # nodes
       THEN SetItem(savedNodes, StringifyGraph(nodes')) ELSE savedNodes
  /\ savedLinks' =
       IF links' # links
       THEN SetItem(savedLinks, StringifyGraph(links')) ELSE savedLinks
  /\ savedTheme' =
       IF isDarkMode' # isDarkMode
       THEN SetItem(savedTheme, ThemeName(isDarkMode')) ELSE savedTheme

\* The mount effect: load the transcript or the greeting, the stored graph
\* and the stored theme, then check the key.
Mount ==
  /\ ~mounted
  /\ mounted' = TRUE
  /\ messages' = LoadMessages(ReadAtMount(savedMessages, savedMessages))
  /\ checkPc' = IF envApiKey THEN "none"
                ELSE IF aistudio THEN "pending" ELSE "done"
  /\ nodes' = LoadGraph(ReadAtMount(savedNodes, StringifyGraph(nodes)), nodes)
  /\ links' = LoadGraph(ReadAtMount(savedLinks, StringifyGraph(links)), links)
  /\ isDarkMode' =
       LoadTheme(ReadAtMount(savedTheme, ThemeName(isDarkMode)), isDarkMode)
  /\ lastOp' = Op("Mount", 0, StoredKeys)
  /\ UNCHANGED <<isLoading, apiKeyMissing, suggestedTool, turns, nTurns,
                 selectPending, envVars, tableVars, previewVars, nEdits, activeTool>>
  /\ MermaidEffect
  /\ savedMessages' = SetItem(savedMessages, StringifyMessages(messages'))
  /\ savedNodes' =
       SetItem(SetItem(savedNodes, StringifyGraph(nodes)), StringifyGraph(nodes'))
  /\ savedLinks' =
       SetItem(SetItem(savedLinks, StringifyGraph(links)), StringifyGraph(links'))
  /\ savedTheme' =
       SetItem(SetItem(savedTheme, ThemeName(isDarkMode)), ThemeName(isDarkMode'))

\* The page is loaded again: the state of the components is constructed
\* anew, the pending promises die with the page, the storage stays; lastOp
\* records the persisted state the page held.
Reload ==
  /\ mounted
  /\ mounted' = FALSE
  /\ messages' = <<>>
  /\ isLoading' = FALSE
  /\ apiKeyMissing' = FALSE
  /\ suggestedTool' = Null
  /\ activeTool' = ToolCONCEPTUAL
  /\ nodes' = DefaultNodes
  /\ links' = DefaultLinks
  /\ isDarkMode' = FALSE
  /\ mermaidSyntax' = <<>>
  /\ turns' = [t \in 1..MaxTurns |-> IdleTurn]
  /\ checkPc' = "none"
  /\ selectPending' = 0
  /\ PreviewDefaults
  /\ TableDefaults
  /\ lastOp' = Op("Reload", 0,
                  [messages |-> messages, nodes |-> nodes, links |-> links,
                   isDarkMode |-> isDarkMode])
  /\ UNCHANGED <<nTurns, nEdits, envVars, storeVars>>

\* checkApiKey after await hasSelectedApiKey().
CheckApiKeyResolve(hasKey) ==
  /\ checkPc = "pending"
  /\ checkPc' = "done"
  /\ apiKeyMissing' = ~hasKey
  /\ lastOp' = Op("CheckApiKeyResolve", 0, <<>>)
  /\ UNCHANGED <<mounted, messages, isLoading, suggestedTool, turns, nTurns,
                 selectPending, envVars, isDarkMode, graphVars, nEdits, activeTool>>
  /\ Render
  /\ MermaidEffect
  /\ Persist

\* hasSelectedApiKey() rejects: the catch only logs.
CheckApiKeyReject ==
  /\ checkPc = "pending"
  /\ checkPc' = "done"
  /\ lastOp' = Op("CheckApiKeyReject", 0, <<>>)
  /\ UNCHANGED <<appVars, turns, nTurns, selectPending, envVars, tableVars, isDarkMode,
                 editorVars>>
  /\ MermaidEffect
  /\ Persist

\* The Select API Key button of the blocking screen.
HandleSelectKey ==
  /\ mounted /\ apiKeyMissing
  /\ IF aistudio
     THEN selectPending < MaxSelect /\ selectPending' = selectPending + 1
     ELSE UNCHANGED selectPending
  /\ lastOp' = Op("HandleSelectKey", 0, <<>>)
  /\ UNCHANGED <<appVars, turns, nTurns, checkPc, envVars, tableVars, isDarkMode,
                 editorVars>>
  /\ MermaidEffect
  /\ Persist

\* handleSelectKey after await openSelectKey().
SelectKeyResolve ==
  /\ selectPending > 0
  /\ selectPending' = selectPending - 1
  /\ apiKeyMissing' = FALSE
  /\ lastOp' = Op("SelectKeyResolve", 0, <<>>)
  /\ UNCHANGED <<mounted, messages, isLoading, suggestedTool, turns, nTurns,
                 checkPc, envVars, isDarkMode, graphVars, nEdits, activeTool>>
  /\ Render
  /\ MermaidEffect
  /\ Persist

\* openSelectKey() rejects: handleSelectKey ends without touching the flag.
SelectKeyReject ==
  /\ selectPending > 0
  /\ selectPending' = selectPending - 1
  /\ lastOp' = Op("SelectKeyReject", 0, <<>>)
  /\ UNCHANGED <<appVars, turns, nTurns, checkPc, envVars, tableVars, isDarkMode,
                 editorVars>>
  /\ MermaidEffect
  /\ Persist

\* ------------------------------------------------- handleSendMessage
\* Lines 110-128: append the user message, raise isLoading, drop the
\* suggestion, project the transcript of the closure and start the call.
StartCall(t, text, att, closure) ==
  /\ messages' = Append(messages, Msg(SenderUSER, text, att, <<>>, <<>>, t))
  /\ isLoading' = TRUE
  /\ suggestedTool' = Null
  /\ turns' = [turns EXCEPT ![t] =
                 [pc |-> "calling", text |-> text, att |-> att,
                  snap |-> closure, hist |-> History(closure),
                  calls |-> turns[t].calls + 1]]

\* handleSendMessage up to its first await; messages is the transcript of
\* the render whose handler was invoked.
EnterSend(text, att) ==
  /\ nTurns < MaxTurns
  /\ nTurns' = nTurns + 1
  /\ IF att
     THEN /\ turns' = [turns EXCEPT ![nTurns + 1] =
                         [pc |-> "reading", text |-> text, att |-> TRUE,
                          snap |-> messages, hist |-> <<>>, calls |-> 0]]
          /\ UNCHANGED <<messages, isLoading, suggestedTool>>
     ELSE StartCall(nTurns + 1, text, FALSE, messages)
  /\ UNCHANGED <<mounted, apiKeyMissing, checkPc, selectPending, envVars, tableVars, isDarkMode,
                 editorVars>>
  /\ MermaidEffect
  /\ Persist

\* handleSubmit of the Send form, with the text typed and the file chosen
\* when the form is submitted; both fields are reset afterwards.
HandleSubmit(input, selectedFile) ==
  /\ ChatShown
  /\ ~((Trim(input) = <<>> /\ ~selectedFile) \/ isLoading)
  /\ EnterSend(input, selectedFile)
  /\ lastOp' = Op("HandleSubmit", nTurns + 1, input)

\* The follow-up questions offered under assistant message m.
QuestionsOf(m) ==
  {m.sq[i] : i \in 1..Len(m.sq)} \cup {m.rq[i] : i \in 1..Len(m.rq)}

\* onClick of a suggested or related question button.
ClickQuestion(k, q) ==
  /\ ChatShown
  /\ k \in 1..Len(messages)
  /\ messages[k].sender = SenderAI
  /\ q \in QuestionsOf(messages[k])
  /\ EnterSend(q, FALSE)
  /\ lastOp' = Op("ClickQuestion", nTurns + 1, q)

\* reader.onload: the attachment is read and the turn goes on.
ReadDone(t) ==
  /\ turns[t].pc = "reading"
  /\ StartCall(t, turns[t].text, TRUE, turns[t].snap)
  /\ lastOp' = Op("ReadDone", t, <<>>)
  /\ UNCHANGED <<mounted, apiKeyMissing, nTurns, checkPc, selectPending,
                 envVars, tableVars, isDarkMode, editorVars>>
  /\ MermaidEffect
  /\ Persist

\* The read fails: only onload is wired, so the awaited promise never settles.
ReadFail(t) ==
  /\ turns[t].pc = "reading"
  /\ turns' = [turns EXCEPT ![t].pc = "hung"]
  /\ lastOp' = Op("ReadFail", t, <<>>)
  /\ UNCHANGED <<appVars, nTurns, checkPc, selectPending, envVars, tableVars, isDarkMode,
                 editorVars>>
  /\ MermaidEffect
  /\ Persist

\* sendMessageToGemini resolves: lines 130-147, then finally.
CallOk(t, r) ==
  /\ turns[t].pc = "calling"
  /\ messages' = Append(messages,
                   Msg(SenderAI, IF r.answer # <<>> THEN r.answer ELSE SystemError,
                       FALSE, r.sq, r.rq, t))
  /\ suggestedTool' = IF SuggestionFor(r.answer) # Null
                      THEN SuggestionFor(r.answer) ELSE suggestedTool
  /\ isLoading' = FALSE
  /\ turns' = [turns EXCEPT ![t].pc = "done"]
  /\ lastOp' = Op("CallOk", t, r.answer)
  /\ UNCHANGED <<mounted, apiKeyMissing, nTurns, checkPc, selectPending,
                 envVars, tableVars, isDarkMode, editorVars>>
  /\ MermaidEffect
  /\ Persist

\* sendMessageToGemini rejects: the catch branch, then finally.
CallFail(t, e) ==
  /\ turns[t].pc = "calling"
  /\ messages' = Append(messages, Msg(SenderAI, ErrorText, FALSE, <<>>, <<>>, t))
  /\ apiKeyMissing' = IF MentionsApiKey(e) THEN TRUE ELSE apiKeyMissing
  /\ isLoading' = FALSE
  /\ turns' = [turns EXCEPT ![t].pc = "done"]
  /\ lastOp' = Op("CallFail", t, e)
  /\ UNCHANGED <<mounted, suggestedTool, nTurns, checkPc, selectPending,
                 envVars, isDarkMode, graphVars, nEdits, activeTool>>
  /\ Render
  /\ MermaidEffect
  /\ Persist

\* The buttons of the suggestion toast.
ToastShown == ChatShown /\ suggestedTool # Null /\ suggestedTool # activeTool

AcceptSuggestion ==
  /\ ToastShown
  /\ activeTool' = suggestedTool
  /\ suggestedTool' = Null
  /\ lastOp' = Op("AcceptSuggestion", 0, <<>>)
  /\ UNCHANGED <<mounted, messages, isLoading, apiKeyMissing, asyncVars,
                 envVars, isDarkMode, graphVars, nEdits>>
  /\ Render
  /\ MermaidEffect
  /\ Persist

DismissSuggestion ==
  /\ ToastShown
  /\ suggestedTool' = Null
  /\ lastOp' = Op("DismissSuggestion", 0, <<>>)
  /\ UNCHANGED <<mounted, messages, isLoading, apiKeyMissing, asyncVars,
                 envVars, tableVars, isDarkMode, editorVars>>
  /\ MermaidEffect
  /\ Persist

\* onToggleTheme of the chat header.
ToggleTheme ==
  /\ ChatShown
  /\ isDarkMode' = ~isDarkMode
  /\ lastOp' = Op("ToggleTheme", 0, <<>>)
  /\ UNCHANGED <<chatVars, envVars, tableVars, editorVars>>
  /\ MermaidEffect
  /\ Persist

NextChat ==
  \/ Mount
  \/ \E hasKey \in BOOLEAN : CheckApiKeyResolve(hasKey)
  \/ CheckApiKeyReject
  \/ HandleSelectKey
  \/ SelectKeyResolve
  \/ SelectKeyReject
  \/ \E s \in Inputs : \E f \in BOOLEAN : HandleSubmit(s, f)
  \/ \E k \in 1..Len(messages) : \E q \in {Question1, Question2} : ClickQuestion(k, q)
  \/ \E t \in 1..MaxTurns : ReadDone(t)
  \/ \E t \in 1..MaxTurns : ReadFail(t)
  \/ \E t \in 1..MaxTurns : \E r \in Responses : CallOk(t, r)
  \/ \E t \in 1..MaxTurns : \E e \in Errors : CallFail(t, e)
  \/ AcceptSuggestion
  \/ DismissSuggestion

\* The chat of an app started with no graph and no theme stored.
InitChat ==
  Init /\ savedNodes = <<>> /\ savedLinks = <<>> /\ savedTheme = Null

SpecChat == InitChat /\ [][NextChat]_vars

\* The outcomes the environment owes an awaited promise: a FileReader read
\* ends (onload or an error), and the outbound call resolves or rejects.
FairChat ==
  /\ SpecChat
  /\ \A t \in 1..MaxTurns :
       /\ WF_vars(ReadDone(t) \/ ReadFail(t))
       /\ WF_vars((\E r \in Responses : CallOk(t, r))
                    \/ (\E e \in Errors : CallFail(t, e)))

\* ------------------------------------------------------ claims: the chat
Outstanding == {t \in 1..MaxTurns : turns[t].pc = "calling"}

\* The positions of the messages turn t appended.
MsgsOf(t) == {k \in 1..Len(messages) : messages[k].turn = t}

\* C1: at most one outbound model call is outstanding at any time, whatever
\* the operator does with the Send form and the follow-up question buttons.
C1_OneOutstandingCall == Cardinality(Outstanding) <= 1

\* C2: a turn that has no step left has performed exactly one outbound call
\* (never zero, never two) and has appended exactly two messages, its user
\* message and after it one assistant message.
C2_OneCallTwoMessages ==
  \A t \in 1..MaxTurns :
    /\ turns[t].calls <= 1
    /\ turns[t].pc \in {"done", "hung"} =>
         /\ turns[t].calls = 1
         /\ Cardinality(MsgsOf(t)) = 2
         /\ \E i, j \in MsgsOf(t) :
              /\ i < j
              /\ messages[i].sender = SenderUSER
              /\ messages[j].sender = SenderAI

\* C3: every turn handed to handleSendMessage eventually completes: the
\* transcript holds an assistant message of that turn and isLoading is false.
C3_TurnCompletes ==
  \A t \in 1..MaxTurns :
    (turns[t].pc # "idle") ~>
      (/\ \E k \in MsgsOf(t) : messages[k].sender = SenderAI
       /\ ~isLoading)

C5_BlockedUntilKeySelected ==
  [][apiKeyMissing =>
       /\ apiKeyMissing' \/ lastOp'.op = "SelectKeyResolve"
       /\ nTurns' = nTurns
       /\ \A t \in 1..MaxTurns : turns'[t].calls = turns[t].calls]_vars

\* ------------------------------------------------------- ModelPreview
PreviewShown == ChatShown /\ activeTool = ToolCONCEPTUAL

\* What the operator may have typed as the new node's label.
Labels == { <<" ">>, <<"X"," ","Y">> }

\* Math.random() * 50 for x and for y.
RandomDraws == { <<25, 40>> }

\* Pointer positions relative to the canvas.
Points == { [x |-> 110, y |-> 75] }

\* Values of Date.now().
Nows == {1, 2}

\* `n${Date.now()}`
NewNodeId(now) == "n" \o ToString(now)

\* A tab of ToolsPanel.
SwitchTab(tab) ==
  /\ ChatShown
  /\ tab # activeTool
  /\ activeTool' = tab
  /\ lastOp' = Op("SwitchTab", 0, <<tab>>)
  /\ UNCHANGED <<chatVars, envVars, isDarkMode, graphVars, nEdits>>
  /\ Render
  /\ MermaidEffect
  /\ Persist

\* addNode with the label typed and the type chosen in the form, at time now;
\* a blank label returns at once.
AddNode(newNodeLabel, nodeType, rnd, now) ==
  /\ PreviewShown
  /\ IF Trim(newNodeLabel) = <<>>
     THEN UNCHANGED nodes
     ELSE /\ nEdits < MaxEdits
          /\ nodes' = Append(nodes,
                        [id |-> NewNodeId(now), label |-> newNodeLabel,
                         type |-> nodeType,
                         x |-> 100 + rnd[1], y |-> 100 + rnd[2]])
  /\ nEdits' = IF nodes' # nodes THEN nEdits + 1 ELSE nEdits
  /\ lastOp' = Op("AddNode", 0, newNodeLabel)
  /\ UNCHANGED <<chatVars, envVars, tableVars, isDarkMode, links, previewVars, activeTool>>
  /\ MermaidEffect
  /\ Persist

\* Mutant: the comparison also requires the stored link to be of the kind
\* being created.
LinkExists_SameKindOnly(ls, src, id, kind) ==
  \E k \in 1..Len(ls) :
    /\ ls[k].type = kind
    /\ \/ ls[k].source = src /\ ls[k].target = id
       \/ kind = "covariance" /\ ls[k].source = id /\ ls[k].target = src

\* links.some(...) of handleNodeClick: an equivalent link is in the store.
LinkExists(ls, src, id, kind) ==
  \E k \in 1..Len(ls) :
    \/ ls[k].source = src /\ ls[k].target = id
    \/ kind = "covariance" /\ ls[k].source = id /\ ls[k].target = src

\* Mutant: the target is an id no node carries.
NewLink_Dangling(src, id, kind) == [source |-> src, target |-> "n0", type |-> kind]

\* Mutant: source and target are swapped.
NewLink_Swapped(src, id, kind) == [source |-> id, target |-> src, type |-> kind]

\* The link the second click creates.
NewLink(src, id, kind) == [source |-> src, target |-> id, type |-> kind]

\* Mutant: the reversed pair is not looked for, whatever the kind.
ClickLinks_NoReverseCheck(ls, mode, pending, kind, id) ==
  IF mode = "link" /\ pending # Null /\ pending # id
       /\ ~(\E k \in 1..Len(ls) : ls[k].source = pending /\ ls[k].target = id)
  THEN Append(ls, NewLink(pending, id, kind))
  ELSE ls

\* The link list handleNodeClick(id) leaves.
ClickLinks(ls, mode, pending, kind, id) ==
  IF mode = "link" /\ pending # Null /\ pending # id
       /\ ~LinkExists(ls, pending, id, kind)
  THEN Append(ls, NewLink(pending, id, kind))
  ELSE ls

\* Mutant: the pending source is cleared only when a link was created.
ClickPending_KeptOnReject(ls, mode, pending, kind, id) ==
  IF mode = "link"
  THEN IF pending = Null THEN id
       ELSE IF pending # id /\ LinkExists(ls, pending, id, kind) THEN pending
       ELSE Null
  ELSE pending

\* Mutant: a click on the pending source itself starts over from that node.
ClickPending_NoCancel(ls, mode, pending, kind, id) ==
  IF mode = "link"
  THEN IF pending = Null \/ pending = id THEN id ELSE Null
  ELSE pending

\* The pending source handleNodeClick(id) leaves.
ClickPending(ls, mode, pending, kind, id) ==
  IF mode = "link"
  THEN IF pending = Null THEN id ELSE Null
  ELSE pending

\* The preview endpoint handleNodeClick(id) leaves.
ClickTemp(mode, pending, temp) ==
  IF mode = "link" /\ pending # Null THEN <<>> ELSE temp

\* onClick of the node at position i of the canvas. lastOp records the node
\* clicked, the pending source the click found and what the click did.
HandleNodeClick(i) ==
  /\ PreviewShown
  /\ i \in 1..Len(nodes)
  /\ LET id == nodes[i].id
     IN  /\ links' = ClickLinks(links, interactionMode, linkingSourceId,
                                linkType, id)
         /\ nEdits' = IF links' # links THEN nEdits + 1 ELSE nEdits
         /\ nEdits' <= MaxEdits
         /\ linkingSourceId' = ClickPending(links, interactionMode,
                                            linkingSourceId, linkType, id)
         /\ tempLineEnd' = ClickTemp(interactionMode, linkingSourceId,
                                     tempLineEnd)
         /\ lastOp' = Op("HandleNodeClick", 0,
                         <<id, linkingSourceId,
                           IF interactionMode # "link" THEN "ignored"
                           ELSE IF linkingSourceId = Null THEN "selected"
                           ELSE IF linkingSourceId = id THEN "cancelled"
                           ELSE IF links' # links THEN "created"
                           ELSE "rejected">>)
  /\ UNCHANGED <<chatVars, envVars, tableVars, isDarkMode, nodes, interactionMode, linkType,
                 activeTool>>
  /\ MermaidEffect
  /\ Persist

\* handleMouseMove over the canvas.
HandleMouseMove(p) ==
  /\ PreviewShown
  /\ interactionMode = "link" /\ linkingSourceId # Null
  /\ tempLineEnd # <<p>>
  /\ tempLineEnd' = <<p>>
  /\ lastOp' = Op("HandleMouseMove", 0, <<>>)
  /\ UNCHANGED <<chatVars, envVars, tableVars, isDarkMode, graphVars, interactionMode, linkType,
                 linkingSourceId, nEdits, activeTool>>
  /\ MermaidEffect
  /\ Persist

\* Mutant: the Move Mode button leaves the pending source.
SetMoveMode_KeepsPending ==
  /\ PreviewShown
  /\ interactionMode' = "move"
  /\ tempLineEnd' = <<>>
  /\ lastOp' = Op("SetMoveMode", 0, <<linkingSourceId>>)
  /\ UNCHANGED <<chatVars, envVars, tableVars, isDarkMode, graphVars, linkType,
                 linkingSourceId, nEdits, activeTool>>
  /\ MermaidEffect
  /\ Persist

\* The Move Mode button; lastOp records the pending source it found.
SetMoveMode ==
  /\ PreviewShown
  /\ interactionMode' = "move"
  /\ linkingSourceId' = Null
  /\ tempLineEnd' = <<>>
  /\ lastOp' = Op("SetMoveMode", 0, <<linkingSourceId>>)
  /\ UNCHANGED <<chatVars, envVars, tableVars, isDarkMode, graphVars, linkType, nEdits,
                 activeTool>>
  /\ MermaidEffect
  /\ Persist

\* The Link Mode button; lastOp records the pending source it found.
SetLinkMode ==
  /\ PreviewShown
  /\ interactionMode' = "link"
  /\ linkingSourceId' = Null
  /\ lastOp' = Op("SetLinkMode", 0, <<linkingSourceId>>)
  /\ UNCHANGED <<chatVars, envVars, tableVars, isDarkMode, graphVars, linkType, tempLineEnd,
                 nEdits, activeTool>>
  /\ MermaidEffect
  /\ Persist

\* The link type selector, shown in link mode.
SetLinkType(k) ==
  /\ PreviewShown
  /\ interactionMode = "link"
  /\ linkType # k
  /\ linkType' = k
  /\ lastOp' = Op("SetLinkType", 0, <<k>>)
  /\ UNCHANGED <<chatVars, envVars, tableVars, isDarkMode, graphVars, interactionMode,
                 linkingSourceId, tempLineEnd, nEdits, activeTool>>
  /\ MermaidEffect
  /\ Persist

\* Mutant: the oldest link is dropped.
RemoveLast_Oldest(ls) == IF Len(ls) > 0 THEN Tail(ls) ELSE ls

\* links.slice(0, -1) under the length test of removeLastLink.
RemoveLast(ls) == IF Len(ls) > 0 THEN SubSeq(ls, 1, Len(ls) - 1) ELSE ls

\* removeLastLink; its button is disabled on an empty list. lastOp records
\* what the handler before it did.
RemoveLastLink ==
  /\ PreviewShown
  /\ Len(links) > 0
  /\ links' = RemoveLast(links)
  /\ lastOp' = Op("RemoveLastLink", 0,
                  IF lastOp.op = "HandleNodeClick"
                  THEN <<lastOp.arg[3]>> ELSE <<>>)
  /\ UNCHANGED <<chatVars, envVars, tableVars, isDarkMode, nodes, previewVars, nEdits,
                 activeTool>>
  /\ MermaidEffect
  /\ Persist

\* Mutant: the answer to the confirmation is not looked at.
ClearLinks_Unasked(ls, confirmed) == <<>>

\* The link list clearAllLinks leaves.
ClearLinks(ls, confirmed) == IF confirmed THEN <<>> ELSE ls

\* clearAllLinks with the answer given to window.confirm; its button is
\* disabled on an empty list.
ClearAllLinks(confirmed) ==
  /\ PreviewShown
  /\ Len(links) > 0
  /\ links' = ClearLinks(links, confirmed)
  /\ lastOp' = Op("ClearAllLinks", 0, <<confirmed>>)
  /\ UNCHANGED <<chatVars, envVars, tableVars, isDarkMode, nodes, previewVars, nEdits,
                 activeTool>>
  /\ MermaidEffect
  /\ Persist

\* The half width of a node's shape.
HalfWidth(type) == IF type = "latent" THEN 50 ELSE 60

\* nodes.map(n => n.id === node.id ? {...n, x: newX, y: newY} : n)
Dropped(ns, node, p) ==
  LET newX == p.x - HalfWidth(node.type)
      newY == p.y - 25
  IN  [k \in 1..Len(ns) |->
         IF ns[k].id = node.id
         THEN [ns[k] EXCEPT !.x = newX, !.y = newY]
         ELSE ns[k]]

\* onDragEnd of the node at position i, dropped at p; a drop that moves
\* nothing is left out. lastOp records the position and the drop point.
DragEnd(i, p) ==
  /\ PreviewShown
  /\ i \in 1..Len(nodes)
  /\ interactionMode = "move"
  /\ nodes' = Dropped(nodes, nodes[i], p)
  /\ nodes' # nodes
  /\ lastOp' = Op("DragEnd", 0, <<i, p>>)
  /\ UNCHANGED <<chatVars, envVars, tableVars, isDarkMode, links, previewVars, nEdits,
                 activeTool>>
  /\ MermaidEffect
  /\ Persist

\* nodes.find(n => n.id === id): <<>> for undefined.
Find(ns, id) ==
  LET hits == {k \in 1..Len(ns) : ns[k].id = id}
  IN  IF hits = {} THEN <<>>
      ELSE <<ns[CHOOSE k \in hits : \A j \in hits : k <= j]>>

\* Mutant: only the source is looked for before the line is drawn.
LinkLine_SourceOnly(ns, link) ==
  IF Find(ns, link.source) = <<>> THEN <<>>
  ELSE <<[x1 |-> 0, y1 |-> 0, x2 |-> 0, y2 |-> 0, dashed |-> FALSE]>>

\* What links.map draws for one link: <<>> for null, else the line.
LinkLine(ns, link) ==
  LET source == Find(ns, link.source)
      target == Find(ns, link.target)
  IN  IF source = <<>> \/ target = <<>> THEN <<>>
      ELSE <<[x1 |-> source[1].x + HalfWidth(source[1].type),
              y1 |-> source[1].y + 25,
              x2 |-> target[1].x + HalfWidth(target[1].type),
              y2 |-> target[1].y + 25,
              dashed |-> link.type = "covariance"]>>

\* The lines of the canvas, by link position.
SvgLines(ns, ls) == [k \in 1..Len(ls) |-> LinkLine(ns, ls[k])]

NextEditor ==
  \/ Mount
  \/ \E tab \in ToolModes : SwitchTab(tab)
  \/ \E l \in Labels : \E k \in {"latent", "observed"} :
       \E rnd \in RandomDraws : \E now \in Nows : AddNode(l, k, rnd, now)
  \/ \E i \in 1..Len(nodes) : HandleNodeClick(i)
  \/ \E p \in Points : HandleMouseMove(p)
  \/ SetMoveMode
  \/ SetLinkMode
  \/ \E k \in {"directed", "covariance"} : SetLinkType(k)
  \/ RemoveLastLink
  \/ \E c \in BOOLEAN : ClearAllLinks(c)

\* The editor of an app started with its key set and nothing stored.
InitEditor ==
  /\ Init /\ envApiKey /\ ~aistudio /\ savedMessages = <<>>
  /\ savedNodes = <<>> /\ savedLinks = <<>> /\ savedTheme = Null

SpecEditor == InitEditor /\ [][NextEditor]_vars

\* The graph store under the operations that change it: adding, dragging,
\* linking, undoing and clearing, from the default graph.
NextGraph ==
  \/ Mount
  \/ \E l \in Labels : \E k \in {"latent", "observed"} :
       \E rnd \in RandomDraws : \E now \in Nows : AddNode(l, k, rnd, now)
  \/ \E i \in 1..Len(nodes) : HandleNodeClick(i)
  \/ SetMoveMode
  \/ SetLinkMode
  \/ RemoveLastLink
  \/ \E c \in BOOLEAN : ClearAllLinks(c)
  \/ \E i \in 1..Len(nodes) : \E p \in Points : DragEnd(i, p)

SpecGraph == InitEditor /\ [][NextGraph]_vars

\* The canvas and the diagram text over whatever graph and theme the storage
\* holds when the app starts.
InitCanvas == Init /\ envApiKey /\ ~aistudio /\ savedMessages = <<>>

NextCanvas ==
  \/ Mount
  \/ ToggleTheme
  \/ \E tab \in ToolModes : SwitchTab(tab)
  \/ \E l \in Labels : \E k \in {"latent", "observed"} :
       \E rnd \in RandomDraws : \E now \in Nows : AddNode(l, k, rnd, now)
  \/ RemoveLastLink

SpecCanvas == InitCanvas /\ [][NextCanvas]_vars

\* --------------------------------------------- ApaTableGenerator.tsx
TableShown == ChatShown /\ activeTool = ToolAPA_TABLE

\* What the operator may put into the CSV field: the example of two columns,
\* a table with padded cells, a repeated header name, a short row and a long
\* row, and nothing at all.
DataTexts ==
  { DefaultDataText,
    <<"A",",","B","\n","1",",","2">>,
    <<" ","A"," ",","," ","B",",","A","\n","1",",","2",",","3","\n","4","\n","5",",","6",",","7",",","8"," ">>,
    <<>> }

\* The title and the note the component starts with, abridged.
TitleText == <<"T","1","\n","R","V">>
NoteText == <<"N","o","t","e",".">>

RECURSIVE Split(_, _)
\* String.prototype.split(sep) for a one-character separator.
Split(text, sep) ==
  LET at == {k \in 1..Len(text) : text[k] = sep}
  IN  IF at = {} THEN <<text>>
      ELSE LET e == CHOOSE k \in at : \A j \in at : k <= j
           IN  <<SubSeq(text, 1, e - 1)>>
                 \o Split(SubSeq(text, e + 1, Len(text)), sep)

\* dataText.trim().split('\n').map(r => r.split(',').map(c => c.trim()))
Rows(text) ==
  LET lines == Split(Trim(text), "\n")
  IN  [r \in 1..Len(lines) |->
         LET cells == Split(lines[r], ",")
         IN  [c \in 1..Len(cells) |-> Trim(cells[c])]]

AllHeaders(text) == Rows(text)[1]
AllBody(text) == Tail(Rows(text))

\* hiddenColumns.includes(h)
IncludesItem(list, item) == \E k \in 1..Len(list) : list[k] = item

\* row.filter((_, i) => indices.includes(i))
FilterAt(row, indices) ==
  LET keep == {i \in 1..Len(row) : i \in indices}
      nth(j) == CHOOSE i \in keep : Cardinality({m \in keep : m < i}) = j - 1
  IN  [j \in 1..Cardinality(keep) |-> row[nth(j)]]

\* Mutant: a body cell is dropped when its own text is a hidden name.
GetVisibleData_ByCellText(text, hidden) ==
  [h |-> SelectSeq(AllHeaders(text), LAMBDA c : ~IncludesItem(hidden, c)),
   b |-> [r \in 1..Len(AllBody(text)) |->
            SelectSeq(AllBody(text)[r], LAMBDA c : ~IncludesItem(hidden, c))]]

\* getVisibleData
GetVisibleData(text, hidden) ==
  LET allHeaders == AllHeaders(text)
      allBody == AllBody(text)
      indices == {i \in 1..Len(allHeaders) : ~IncludesItem(hidden, allHeaders[i])}
  IN  [h |-> FilterAt(allHeaders, indices),
       b |-> [r \in 1..Len(allBody) |-> FilterAt(allBody[r], indices)]]

RECURSIVE Join(_, _)
\* Array.prototype.join(sep), the cells and sep being texts.
Join(cells, sep) ==
  IF cells = <<>> THEN <<>>
  ELSE IF Len(cells) = 1 THEN cells[1]
  ELSE cells[1] \o sep \o Join(Tail(cells), sep)

\* title.replace('\n', '**  \n*'): the first line feed only.
TitleMarkdown(title) ==
  LET at == {k \in 1..Len(title) : title[k] = "\n"}
  IN  IF at = {} THEN title
      ELSE LET e == CHOOSE k \in at : \A j \in at : k <= j
           IN  SubSeq(title, 1, e - 1) \o <<"*","*"," "," ","\n","*">>
                 \o SubSeq(title, e + 1, Len(title))

\* `| ${row.join(' | ')} |\n`
MdRow(cells) ==
  <<"|"," ">> \o Join(cells, <<" ","|"," ">>) \o <<" ","|","\n">>

RECURSIVE MdRows(_)
\* body.forEach(row => mdTable += ...)
MdRows(body) ==
  IF body = <<>> THEN <<>> ELSE MdRow(Head(body)) \o MdRows(Tail(body))

\* The text handleCopyMarkdown hands to the clipboard.
MdTable(title, header, body, note) ==
  <<"*","*">> \o TitleMarkdown(title) \o <<"*","\n","\n">>
    \o MdRow(header)
    \o MdRow([i \in 1..Len(header) |-> <<"-","-","-">>])
    \o MdRows(body)
    \o <<"\n","*">> \o note \o <<"*">>

\* The table handleExportPDF hands to autoTable.
PdfTable(header, body) == [head |-> <<header>>, body |-> body]

\* The rows of the preview's tbody, one cell for each element of a row.
PreviewBody(text, hidden) == GetVisibleData(text, hidden).b

\* onChange of the CSV field.
SetDataText(d) ==
  /\ TableShown
  /\ d # dataText
  /\ dataText' = d
  /\ lastOp' = Op("SetDataText", 0, <<>>)
  /\ UNCHANGED <<chatVars, envVars, editorVars, isDarkMode, hiddenColumns,
                 copied>>
  /\ MermaidEffect
  /\ Persist

\* toggleColumn of the button of column i.
ToggleColumn(i) ==
  /\ TableShown
  /\ i \in 1..Len(AllHeaders(dataText))
  /\ LET col == AllHeaders(dataText)[i]
     IN  /\ hiddenColumns' =
               IF IncludesItem(hiddenColumns, col)
               THEN SelectSeq(hiddenColumns, LAMBDA c : c # col)
               ELSE Append(hiddenColumns, col)
         /\ lastOp' = Op("ToggleColumn", 0, col)
  /\ Len(hiddenColumns') <= MaxHidden
  /\ UNCHANGED <<chatVars, envVars, editorVars, isDarkMode, dataText, copied>>
  /\ MermaidEffect
  /\ Persist

\* handleCopyMarkdown; lastOp records the text written to the clipboard.
HandleCopyMarkdown ==
  /\ TableShown
  /\ LET v == GetVisibleData(dataText, hiddenColumns)
     IN  lastOp' = Op("HandleCopyMarkdown", 0,
                      MdTable(TitleText, v.h, v.b, NoteText))
  /\ copied' = TRUE
  /\ UNCHANGED <<chatVars, envVars, editorVars, isDarkMode, dataText,
                 hiddenColumns>>
  /\ MermaidEffect
  /\ Persist

\* The timer of handleCopyMarkdown, two seconds later.
CopiedTimeout ==
  /\ TableShown
  /\ copied
  /\ copied' = FALSE
  /\ lastOp' = Op("CopiedTimeout", 0, <<>>)
  /\ UNCHANGED <<chatVars, envVars, editorVars, isDarkMode, dataText,
                 hiddenColumns>>
  /\ MermaidEffect
  /\ Persist

\* handleExportPDF; lastOp records the table handed to autoTable.
HandleExportPDF ==
  /\ TableShown
  /\ LET v == GetVisibleData(dataText, hiddenColumns)
     IN  lastOp' = Op("HandleExportPDF", 0, PdfTable(v.h, v.b))
  /\ UNCHANGED <<chatVars, envVars, editorVars, isDarkMode, tableVars>>
  /\ MermaidEffect
  /\ Persist

NextTable ==
  \/ Mount
  \/ \E tab \in ToolModes : SwitchTab(tab)
  \/ \E d \in DataTexts : SetDataText(d)
  \/ \E i \in 1..Len(AllHeaders(dataText)) : ToggleColumn(i)
  \/ HandleCopyMarkdown
  \/ CopiedTimeout
  \/ HandleExportPDF

SpecTable == InitEditor /\ [][NextTable]_vars

\* ------------------------------------------------- the storage over time
\* One instance over whatever an earlier session has stored: the persisted
\* state changes through the theme, the graph and the chat, and the page is
\* loaded again at any moment.
NextStore ==
  \/ Mount
  \/ Reload
  \/ ToggleTheme
  \/ \E l \in Labels : \E rnd \in RandomDraws : \E now \in Nows :
       AddNode(l, "observed", rnd, now)
  \/ RemoveLastLink
  \/ \E s \in Inputs : HandleSubmit(s, FALSE)
  \/ \E t \in 1..MaxTurns : \E r \in {q \in Responses : q.sq # <<>>} :
       CallOk(t, r)
  \/ \E t \in 1..MaxTurns : CallFail(t, ErrNetwork)

InitStore == Init /\ envApiKey /\ ~aistudio

SpecStore == InitStore /\ [][NextStore]_vars

\* The second instance starts: the same load and write effects, on its own
\* state.
OtherMount ==
  /\ ~otherTab.mounted
  /\ otherTab' =
       [mounted |-> TRUE,
        nodes |-> LoadGraph(ReadAtMount(savedNodes,
                                        StringifyGraph(otherTab.nodes)),
                            otherTab.nodes),
        links |-> LoadGraph(ReadAtMount(savedLinks,
                                        StringifyGraph(otherTab.links)),
                            otherTab.links)]
  /\ savedMessages' =
       SetItem(savedMessages,
               StringifyMessages(LoadMessages(ReadAtMount(savedMessages,
                                                          savedMessages))))
  /\ savedNodes' =
       SetItem(SetItem(savedNodes, StringifyGraph(otherTab.nodes)),
               StringifyGraph(otherTab'.nodes))
  /\ savedLinks' =
       SetItem(SetItem(savedLinks, StringifyGraph(otherTab.links)),
               StringifyGraph(otherTab'.links))
  /\ savedTheme' =
       SetItem(SetItem(savedTheme, ThemeName(FALSE)),
               ThemeName(LoadTheme(ReadAtMount(savedTheme, ThemeName(FALSE)),
                                   FALSE)))
  /\ lastOp' = Op("OtherMount", 0, <<>>)
  /\ UNCHANGED <<chatVars, envApiKey, aistudio, editorVars, viewVars,
                 tableVars>>

\* removeLastLink in the second instance, and its write effect.
OtherRemoveLastLink ==
  /\ otherTab.mounted
  /\ Len(otherTab.links) > 0
  /\ otherTab' = [otherTab EXCEPT !.links = RemoveLast(otherTab.links)]
  /\ savedLinks' = SetItem(savedLinks, StringifyGraph(otherTab'.links))
  /\ lastOp' = Op("OtherRemoveLastLink", 0, <<>>)
  /\ UNCHANGED <<chatVars, envApiKey, aistudio, editorVars, viewVars,
                 tableVars, savedMessages, savedNodes, savedTheme>>

\* Two instances on one storage, each linking and undoing.
NextTabs ==
  \/ Mount
  \/ SetLinkMode
  \/ \E i \in 1..Len(nodes) : HandleNodeClick(i)
  \/ RemoveLastLink
  \/ OtherMount
  \/ OtherRemoveLastLink

SpecTabs == InitEditor /\ [][NextTabs]_vars

\* ---------------------------------------------------- claims: the editor
\* The step is handleNodeClick(id) finding pending source src.
Clicked(id, src) ==
  /\ lastOp'.op = "HandleNodeClick"
  /\ lastOp'.arg[1] = id
  /\ lastOp'.arg[2] = src

NodeIds == {nodes[i].id : i \in 1..Len(nodes)}

\* The positions of the links that join a and b, in either direction.
LinksBetween(ls, a, b) ==
  {k \in 1..Len(ls) : {ls[k].source, ls[k].target} = {a, b}}

\* A link from a to b, or for the covariance kind one from b to a, is stored.
Equivalent(ls, a, b, kind) ==
  \/ \E k \in 1..Len(ls) : ls[k].source = a /\ ls[k].target = b
  \/ /\ kind = "covariance"
     /\ \E k \in 1..Len(ls) : ls[k].source = b /\ ls[k].target = a

\* C6: the link list never holds two links with the same source and the
\* same target.
C6_NoDuplicateLinks ==
  \A i, j \in 1..Len(links) :
    (links[i].source = links[j].source /\ links[i].target = links[j].target)
      => i = j

\* A second attempt to link 1 to 2 (directed) has been rejected.
C6_Witness ==
  /\ lastOp.op = "HandleNodeClick"
  /\ lastOp.arg = <<"2", "1", "rejected">>
  /\ linkType = "directed"
  /\ links = Append(DefaultLinks, [source |-> "1", target |-> "2", type |-> "directed"])

\* C7: when the covariance link from a to b is the only link between a and
\* b, a covariance link from b to a is rejected and the store still holds
\* exactly one link between them.
C7_CovarianceReverseRejected ==
  [][\A a, b \in NodeIds :
       (/\ a # b
        /\ Clicked(a, b)
        /\ interactionMode = "link"
        /\ linkType = "covariance"
        /\ Cardinality(LinksBetween(links, a, b)) = 1
        /\ \E k \in 1..Len(links) :
             links[k] = [source |-> a, target |-> b, type |-> "covariance"])
       => /\ links' = links
          /\ Cardinality(LinksBetween(links', a, b)) = 1]_vars

\* After the covariance link from 1 to 2, the attempt from 2 to 1 was rejected.
C7_Witness ==
  /\ lastOp.op = "HandleNodeClick"
  /\ lastOp.arg = <<"1", "2", "rejected">>
  /\ linkType = "covariance"
  /\ Cardinality(LinksBetween(links, "1", "2")) = 1
  /\ links[Len(links)] = [source |-> "1", target |-> "2", type |-> "covariance"]

\* C8: in link mode with pending source p, a click on another node t with no
\* equivalent link stored appends the one link from p to t of the selected
\* kind and changes no other link; from the default graph, Leadership then
\* Quality in directed kind gives three links, the last Leadership to Quality.
C8_SecondClickAppends ==
  [][\A p, t \in NodeIds :
       (/\ p # t
        /\ Clicked(t, p)
        /\ interactionMode = "link"
        /\ ~Equivalent(links, p, t, linkType))
       => /\ links' = Append(links, [source |-> p, target |-> t, type |-> linkType])
          /\ (links = DefaultLinks /\ p = "1" /\ t = "2" /\ linkType = "directed")
               => /\ Len(links') = 3
                  /\ links'[3] = [source |-> "1", target |-> "2",
                                  type |-> "directed"]]_vars

\* From the default graph, Leadership then Quality have been clicked.
C8_Witness ==
  /\ lastOp.op = "HandleNodeClick"
  /\ lastOp.arg = <<"2", "1", "created">>
  /\ nodes = DefaultNodes
  /\ Len(links) = 3
  /\ SubSeq(links, 1, 2) = DefaultLinks
  /\ links[3] = [source |-> "1", target |-> "2", type |-> "directed"]

\* C9: a second click on a node other than the pending source clears the
\* pending source, whether the link is created or rejected; a rejected
\* attempt leaves the node list and the link list as they were.
C9_SecondClickClearsPending ==
  [][\A p, t \in NodeIds :
       (p # t /\ Clicked(t, p) /\ interactionMode = "link")
       => /\ linkingSourceId' = Null
          /\ Equivalent(links, p, t, linkType) =>
               (links' = links /\ nodes' = nodes)]_vars

\* The attempt to link 1 to 3 again has been rejected.
C9_Witness ==
  /\ lastOp.op = "HandleNodeClick"
  /\ lastOp.arg = <<"3", "1", "rejected">>
  /\ linkingSourceId = Null
  /\ links = DefaultLinks
  /\ nodes = DefaultNodes

\* C10: in link mode a click with no pending source records the node and
\* leaves nodes and links alone; a click on the pending source cancels it
\* and creates no link; no stored link has its source as its target.
C10_FirstClickAndCancel ==
  /\ [][\A t \in NodeIds :
          /\ (Clicked(t, Null) /\ interactionMode = "link")
               => (linkingSourceId' = t /\ links' = links /\ nodes' = nodes)
          /\ (Clicked(t, t) /\ interactionMode = "link")
               => (linkingSourceId' = Null /\ links' = links /\ nodes' = nodes)]_vars
  /\ [](\A k \in 1..Len(links) : links[k].source # links[k].target)

\* The pending source 1 has been clicked again.
C10_Witness ==
  /\ lastOp.op = "HandleNodeClick"
  /\ lastOp.arg = <<"1", "1", "cancelled">>
  /\ interactionMode = "link"
  /\ linkingSourceId = Null
  /\ links = DefaultLinks

\* C11: the interaction mode is always one of move and link; either mode
\* button sets its mode and clears the pending source; and a pending source
\* is set only while the mode is link.
C11_ModeAndPending ==
  /\ [](interactionMode \in {"move", "link"})
  /\ [](linkingSourceId # Null => interactionMode = "link")
  /\ [][/\ lastOp'.op = "SetMoveMode" =>
             (interactionMode' = "move" /\ linkingSourceId' = Null)
        /\ lastOp'.op = "SetLinkMode" =>
             (interactionMode' = "link" /\ linkingSourceId' = Null)]_vars

\* The Move Mode button has been pressed while node 1 was the pending source.
C11_Witness ==
  /\ lastOp.op = "SetMoveMode"
  /\ lastOp.arg = <<"1">>
  /\ interactionMode = "move"
  /\ linkingSourceId = Null

\* C12: the preview endpoint is set only while a pending source is set, so
\* a newly chosen pending source never starts with an endpoint left over.
C12_PreviewOnlyWhilePending ==
  tempLineEnd # <<>> => linkingSourceId # Null

\* C13: undo removes exactly the last link and leaves the other links and
\* the nodes alone; undoing right after a link was created gives back the
\* list the creation found; on an empty list it changes nothing.
C13_UndoRemovesLast ==
  /\ [][lastOp'.op = "RemoveLastLink" =>
          /\ Len(links) > 0
          /\ links = Append(links', links[Len(links)])
          /\ nodes' = nodes]_vars
  /\ [](\A p, t \in NodeIds :
          LET created == ClickLinks(links, "link", p, linkType, t)
          IN  created # links => RemoveLast(created) = links)
  /\ [](links = <<>> => RemoveLast(links) = <<>>)

\* The link just created has been undone: the default links are back.
C13_Witness ==
  /\ lastOp.op = "RemoveLastLink"
  /\ lastOp.arg = <<"created">>
  /\ links = DefaultLinks

\* C14: clear-all empties the link list when the confirmation is accepted
\* and leaves it alone when declined; either way the nodes, the interaction
\* mode and the pending source stay as they were.
C14_ClearNeedsConfirmation ==
  [][lastOp'.op = "ClearAllLinks" =>
       /\ lastOp'.arg[1] => links' = <<>>
       /\ ~lastOp'.arg[1] => links' = links
       /\ nodes' = nodes
       /\ interactionMode' = interactionMode
       /\ linkingSourceId' = linkingSourceId]_vars

\* The links have been cleared while node 1 was the pending source.
C14_Witness ==
  /\ lastOp.op = "ClearAllLinks"
  /\ lastOp.arg = <<TRUE>>
  /\ links = <<>>
  /\ nodes = DefaultNodes
  /\ interactionMode = "link"
  /\ linkingSourceId = "1"

\* C15: in move mode a click on a node changes neither nodes, links nor the
\* pending source; a drag of the node at position i sets that node's x and y
\* to the drop point minus 50 (latent) or 60 (observed) and minus 25, and
\* leaves every other position of the node list and all links alone; in
\* link mode no node changes its x or y.
C15_MoveModeClickAndDrag ==
  /\ [][(lastOp'.op = "HandleNodeClick" /\ interactionMode = "move") =>
          (nodes' = nodes /\ links' = links
             /\ linkingSourceId' = linkingSourceId)]_vars
  /\ [][lastOp'.op = "DragEnd" =>
          LET i == lastOp'.arg[1]
              p == lastOp'.arg[2]
          IN  /\ Len(nodes') = Len(nodes)
              /\ links' = links
              /\ nodes'[i] =
                   [nodes[i] EXCEPT
                      !.x = p.x - (IF nodes[i].type = "latent" THEN 50 ELSE 60),
                      !.y = p.y - 25]
              /\ \A k \in 1..Len(nodes) : k # i => nodes'[k] = nodes[k]]_vars
  /\ [][interactionMode = "link" =>
          \A k \in 1..Len(nodes) :
            nodes'[k].x = nodes[k].x /\ nodes'[k].y = nodes[k].y]_vars

\* C16: from the default graph, after any sequence of add, drag, link
\* creation, undo and clear, every link's source and target are ids of
\* nodes in the node list.
C16_LinksNameNodes ==
  \A k \in 1..Len(links) :
    links[k].source \in NodeIds /\ links[k].target \in NodeIds

\* A node has been added and linked to, and a node has then been dragged.
C16_Witness ==
  /\ lastOp.op = "DragEnd"
  /\ \E k \in 1..Len(links) : links[k].target = "n1"
  /\ Len(nodes) = 4

\* C17: whatever the node list and the link list, the canvas draws one line
\* for each link whose source and target are both ids of nodes, from the
\* anchor of the first node of the source id to that of the target id, and
\* draws nothing for the other links.
C17_RenderSkipsDangling ==
  LET lines == SvgLines(nodes, links)
  IN  /\ Len(lines) = Len(links)
      /\ \A k \in 1..Len(links) :
           IF links[k].source \in NodeIds /\ links[k].target \in NodeIds
           THEN /\ Len(lines[k]) = 1
                /\ \E a, b \in 1..Len(nodes) :
                     /\ nodes[a].id = links[k].source
                     /\ nodes[b].id = links[k].target
                     /\ lines[k][1].x1 =
                          nodes[a].x + (IF nodes[a].type = "latent" THEN 50 ELSE 60)
                     /\ lines[k][1].y1 = nodes[a].y + 25
                     /\ lines[k][1].x2 =
                          nodes[b].x + (IF nodes[b].type = "latent" THEN 50 ELSE 60)
                     /\ lines[k][1].y2 = nodes[b].y + 25
           ELSE lines[k] = <<>>

\* The stored graph is on the canvas: one link is drawn, one names node 9,
\* which is not stored.
C17_Witness ==
  /\ mounted
  /\ \E k \in 1..Len(links) : links[k].source \notin NodeIds
  /\ \E k \in 1..Len(links) : SvgLines(nodes, links)[k] # <<>>

\* C18: no two nodes of the node list carry the same id.
C18_UniqueNodeIds ==
  \A i, j \in 1..Len(nodes) : nodes[i].id = nodes[j].id => i = j

RECURSIVE SplitLines(_)
\* The lines of a text, each without the line feed that ends it.
SplitLines(text) ==
  IF text = <<>> THEN <<>>
  ELSE LET ends == {k \in 1..Len(text) : text[k] = "\n"}
       IN  IF ends = {} THEN <<text>>
           ELSE LET e == CHOOSE k \in ends : \A j \in ends : k <= j
                IN  <<SubSeq(text, 1, e - 1)>>
                      \o SplitLines(SubSeq(text, e + 1, Len(text)))

\* The label with each white space character replaced by the filler.
Filled(label) ==
  [i \in 1..Len(label) |->
     IF label[i] \in {" ", "\t", "\n"} THEN "_" ELSE label[i]]

\* C19: while the editor is shown the diagram text is determined by the
\* node list, the link list and the theme flag: the header line, the two
\* class definitions of the theme, one declaration per node in node-list
\* order (rounded marker for latent, rectangular for observed, white space
\* in the label replaced), then one declaration per link in link-list order
\* (double arrow for covariance, single arrow otherwise).
C19_DiagramText ==
  PreviewShown =>
    LET lines == SplitLines(mermaidSyntax)
        n == Len(nodes)
    IN  /\ mermaidSyntax[Len(mermaidSyntax)] = "\n"
        /\ Len(lines) = 3 + n + Len(links)
        /\ lines[1] \o <<"\n">> = SyntaxHeader
        /\ lines[2] \o <<"\n">> =
             (IF isDarkMode THEN ClassDefLatentDark ELSE ClassDefLatentLight)
        /\ lines[3] \o <<"\n">> =
             (IF isDarkMode THEN ClassDefObservedDark ELSE ClassDefObservedLight)
        /\ \A k \in 1..n :
             lines[3 + k] =
               IF nodes[k].type = "latent"
               THEN <<nodes[k].id, "(", "(">> \o Filled(nodes[k].label)
                      \o <<")", ")", ":", ":", ":", "latent">>
               ELSE <<nodes[k].id, "[">> \o Filled(nodes[k].label)
                      \o <<"]", ":", ":", ":", "observed">>
        /\ \A k \in 1..Len(links) :
             lines[3 + n + k] =
               IF links[k].type = "covariance"
               THEN <<links[k].source, " ", "<", "-", "-", ">", " ",
                      links[k].target>>
               ELSE <<links[k].source, " ", "-", "-", ">", " ",
                      links[k].target>>

\* The dark theme is on over a graph that holds an observed node whose label
\* has white space, a latent node and a covariance link.
C19_Witness ==
  /\ PreviewShown
  /\ isDarkMode
  /\ lastOp.op = "ToggleTheme"
  /\ \E k \in 1..Len(nodes) :
       nodes[k].type = "observed" /\ nodes[k].label # Filled(nodes[k].label)
  /\ \E k \in 1..Len(nodes) : nodes[k].type = "latent"
  /\ \E k \in 1..Len(links) : links[k].type = "covariance"

\* C20: when a reply is received the suggested tool becomes the fit checker
\* if the lowercased reply holds a fit-index term, else the APA table tool if
\* it holds a table term, else the syntax helper if it holds a syntax or
\* software term, and else no tool is suggested.
C20_SuggestionFollowsReply ==
  [][lastOp'.op = "CallOk" =>
       LET low == ToLowerCase(lastOp'.arg)
           fit == \E w \in {KwCfi, KwRmsea, KwFitIndex} : Includes(low, w)
           table == \E w \in {KwApaTable, KwTarang} : Includes(low, w)
           code == \E w \in {KwJamovi, KwSyntax, KwCode} : Includes(low, w)
       IN  suggestedTool' =
             IF fit THEN ToolFIT_CHECKER
             ELSE IF table THEN ToolAPA_TABLE
             ELSE IF code THEN ToolJAMOVI
             ELSE Null]_vars

\* C26: the history sent with a turn's call is the role and text of every
\* message that precedes the turn's user message in the transcript, in
\* order, and of no other message.
C26_HistoryIsPriorTranscript ==
  \A t \in 1..MaxTurns :
    turns[t].pc \in {"calling", "done"} =>
      \E k \in MsgsOf(t) :
        /\ messages[k].sender = SenderUSER
        /\ turns[t].hist =
             [i \in 1..(k - 1) |->
                [role |-> IF messages[i].sender = SenderUSER
                          THEN "user" ELSE "model",
                 text |-> messages[i].text]]

\* C27: a covariance link is the only link between its two nodes, in either
\* direction and of either kind.
C27_CovarianceAlone ==
  \A k \in 1..Len(links) :
    links[k].type = "covariance" =>
      LinksBetween(links, links[k].source, links[k].target) = {k}

\* C28: after the greeting the transcript alternates user message, assistant
\* message: the first message is the assistant's, no two neighbours have the
\* same sender, and the assistant message of a turn directly follows the
\* turn's user message.
C28_TranscriptAlternates ==
  /\ \A k \in 1..(Len(messages) - 1) :
       messages[k].sender # messages[k + 1].sender
  /\ \A k \in 1..Len(messages) :
       (messages[k].sender = SenderAI /\ messages[k].turn # 0) =>
         /\ k > 1
         /\ messages[k - 1].sender = SenderUSER
         /\ messages[k - 1].turn = messages[k].turn

\* C29: isLoading is true exactly while a turn has been accepted and its
\* call has neither resolved nor failed.
C29_LoadingWhileInFlight ==
  isLoading <=> (\E t \in 1..MaxTurns : turns[t].pc \in {"reading", "calling"})


\* --------------------------------------------------- claims: the APA table
\* The header positions whose name is not hidden.
VisiblePositions ==
  {i \in 1..Len(AllHeaders(dataText)) :
     \A k \in 1..Len(hiddenColumns) : hiddenColumns[k] # AllHeaders(dataText)[i]}

\* The j-th visible header position, from the left.
NthVisible(j) ==
  CHOOSE i \in VisiblePositions :
    Cardinality({m \in VisiblePositions : m < i}) = j - 1

\* One row of a Markdown table, without its line feed.
MarkdownRow(cells) ==
  <<"|", " ">> \o Join(cells, <<" ", "|", " ">>) \o <<" ", "|">>

\* The lines of a Markdown text that are table rows.
TableLines(text) ==
  SelectSeq(Split(text, "\n"), LAMBDA l : l # <<>> /\ l[1] = "|")

\* C24: the visible header is the header row without the hidden names, in the
\* original order; every visible body row holds the cells at the column
\* positions of the visible header cells; the Markdown text and the PDF table
\* are built from this header and body; A,B / 1,2 with A hidden gives header
\* [B] and body row [2].
C24_VisibleTable ==
  LET hdr == AllHeaders(dataText)
      rows == AllBody(dataText)
      v == GetVisibleData(dataText, hiddenColumns)
      n == Cardinality(VisiblePositions)
  IN  /\ Len(v.h) = n
      /\ \A j \in 1..n : v.h[j] = hdr[NthVisible(j)]
      /\ Len(v.b) = Len(rows)
      /\ \A r \in 1..Len(rows) :
           /\ Len(v.b[r]) = Cardinality({i \in VisiblePositions : i <= Len(rows[r])})
           /\ \A j \in 1..Len(v.b[r]) : v.b[r][j] = rows[r][NthVisible(j)]
      /\ lastOp.op = "HandleCopyMarkdown" =>
           TableLines(lastOp.arg) =
             <<MarkdownRow([j \in 1..n |-> hdr[NthVisible(j)]]),
               MarkdownRow([j \in 1..n |-> <<"-", "-", "-">>])>>
             \o [r \in 1..Len(rows) |->
                   MarkdownRow([j \in 1..Cardinality({i \in VisiblePositions : i <= Len(rows[r])}) |->
                                  rows[r][NthVisible(j)]])]
      /\ lastOp.op = "HandleExportPDF" =>
           /\ lastOp.arg.head = <<[j \in 1..n |-> hdr[NthVisible(j)]]>>
           /\ lastOp.arg.body =
                [r \in 1..Len(rows) |->
                   [j \in 1..Cardinality({i \in VisiblePositions : i <= Len(rows[r])}) |->
                      rows[r][NthVisible(j)]]]
      /\ (dataText = <<"A", ",", "B", "\n", "1", ",", "2">>
            /\ hiddenColumns = << <<"A">> >>) =>
           v = [h |-> << <<"B">> >>, b |-> << << <<"2">> >> >>]

\* A,B / 1,2 with A hidden has just been exported as PDF.
C24_Witness ==
  /\ dataText = <<"A", ",", "B", "\n", "1", ",", "2">>
  /\ hiddenColumns = << <<"A">> >>
  /\ lastOp.op = "HandleExportPDF"

\* C25: a body row with fewer fields than the header row is rendered with an
\* empty cell in each visible column it lacks: every rendered body row has as
\* many cells as the visible header.
C25_ShortRowsPadded ==
  TableShown =>
    \A r \in 1..Len(PreviewBody(dataText, hiddenColumns)) :
      Len(PreviewBody(dataText, hiddenColumns)[r])
        = Len(GetVisibleData(dataText, hiddenColumns).h)


\* ----------------------------------------------------- claims: the storage
\* The transcript without the page's bookkeeping of invocations.
Transcript(ms) == [i \in 1..Len(ms) |-> [ms[i] EXCEPT !.turn = 0]]

\* C21: starting the app when the storage holds none of the persisted keys
\* yields the default graph (three latent nodes Leadership, Quality, Success
\* with directed links Leadership -> Success and Quality -> Success), a
\* transcript of exactly one assistant greeting in Thai, and the non-dark
\* theme.
C21_FreshStart ==
  (lastOp.op = "Mount" /\ lastOp.arg = <<>>) =>
    /\ Len(nodes) = 3
    /\ \A i \in 1..3 : nodes[i].type = "latent"
    /\ nodes[1].label = <<"L","e","a","d","e","r","s","h","i","p">>
    /\ nodes[2].label = <<"Q","u","a","l","i","t","y">>
    /\ nodes[3].label = <<"S","u","c","c","e","s","s">>
    /\ links = << [source |-> nodes[1].id, target |-> nodes[3].id,
                   type |-> "directed"],
                  [source |-> nodes[2].id, target |-> nodes[3].id,
                   type |-> "directed"] >>
    /\ Len(messages) = 1
    /\ messages[1].sender = SenderAI
    /\ messages[1].text = TranslationsGreeting("TH")
    /\ ~isDarkMode

\* The app has started on a storage without any of the keys.
C21_Witness ==
  /\ mounted
  /\ lastOp.op = "Mount"
  /\ lastOp.arg = <<>>
  /\ messages = <<GreetingMsg>>

\* C22: in a single instance, once the effects of a change have run the
\* stored node list, link list, theme flag and non-empty transcript equal the
\* ones in memory; a reload restores the persisted state held before it; and
\* start-up leaves every value stored before it in the storage.
C22_StorageMirrorsMemory ==
  /\ [](mounted =>
          /\ savedNodes = <<nodes>>
          /\ savedLinks = <<links>>
          /\ savedTheme = (IF isDarkMode THEN "dark" ELSE "light")
          /\ messages # <<>>
          /\ Len(savedMessages) = Len(messages)
          /\ \A i \in 1..Len(messages) :
               /\ savedMessages[i].sender = messages[i].sender
               /\ savedMessages[i].text = messages[i].text
               /\ savedMessages[i].att = messages[i].att
               /\ savedMessages[i].sq = messages[i].sq
               /\ savedMessages[i].rq = messages[i].rq)
  /\ [][lastOp.op = "Reload" =>
          /\ nodes' = lastOp.arg.nodes
          /\ links' = lastOp.arg.links
          /\ isDarkMode' = lastOp.arg.isDarkMode
          /\ Transcript(messages') = Transcript(lastOp.arg.messages)]_vars
  /\ [][(~mounted /\ mounted') =>
          /\ savedMessages # <<>> => savedMessages' = savedMessages
          /\ savedNodes # <<>> => savedNodes' = savedNodes
          /\ savedLinks # <<>> => savedLinks' = savedLinks
          /\ savedTheme # Null => savedTheme' = savedTheme]_vars

\* The app has started again after a session that edited the graph, chatted
\* and switched to the dark theme.
C22_Witness ==
  /\ mounted
  /\ lastOp.op = "Mount"
  /\ nEdits > 0
  /\ nTurns > 0
  /\ Len(messages) > 1
  /\ isDarkMode
  /\ Len(nodes) > 0

\* C23: with two instances on one storage, a write replaces the whole stored
\* value with the snapshot of the instance that writes: after a step in which
\* an instance changed its link list (or node list) the stored list is that
\* instance's list, and the storage changes in no other way.
C23_WholeValueWrites ==
  [][/\ links' # links => savedLinks' = <<links'>>
     /\ nodes' # nodes => savedNodes' = <<nodes'>>
     /\ otherTab'.links # otherTab.links => savedLinks' = <<otherTab'.links>>
     /\ otherTab'.nodes # otherTab.nodes => savedNodes' = <<otherTab'.nodes>>
     /\ savedLinks' # savedLinks =>
          savedLinks' = (IF otherTab' # otherTab THEN <<otherTab'.links>>
                         ELSE <<links'>>)
     /\ savedNodes' # savedNodes =>
          savedNodes' = (IF otherTab' # otherTab THEN <<otherTab'.nodes>>
                         ELSE <<nodes'>>)]_vars

\* A link added in this instance is missing from the storage: the other
\* instance has just written its own list.
C23_Witness ==
  /\ mounted
  /\ otherTab.mounted
  /\ lastOp.op = "OtherRemoveLastLink"
  /\ savedLinks = <<otherTab.links>>
  /\ \E k \in 1..Len(links) :
       /\ \A j \in 1..Len(DefaultLinks) : links[k] # DefaultLinks[j]
       /\ \A j \in 1..Len(savedLinks[1]) : links[k] # savedLinks[1][j]

====
